---- MODULE Spec2Model ----
(***************************************************************************)
(* A model of expensetracker/run.py: the ExpenseTracker object (its        *)
(* in-memory expense list and category list), the two worksheets it reads  *)
(* and writes ("expenses" and "categories"), and the menu handlers that    *)
(* mutate them.                                                            *)
(*                                                                         *)
(* A worksheet is a grid: a sequence of rows, each a sequence of cell      *)
(* texts; a missing cell reads as the empty text.  Every worksheet call    *)
(* (find, col_values, clear, update) either succeeds or raises; which one  *)
(* raises is an input of the handler that makes the call.  Display,        *)
(* summary and budget handlers change none of the state below and are      *)
(* left out.                                                               *)
(***************************************************************************)
EXTENDS Integers, Sequences, FiniteSets, TLC

VARIABLES
    expenses,            \* self.expenses: sequence of [name, amount, category]
    expense_categories,  \* self.expense_categories: sequence of items
    expense_sheet,       \* worksheet 'expenses'
    categories_sheet,    \* worksheet 'categories'
    has_logger,          \* whether self.logger has been set (setup_logger)
    pc,                  \* "new", "constructed", "menu", "items", "crashed", "exited"
    last                 \* the last handler run: its inputs and what it did

vars == <<expenses, expense_categories, expense_sheet, categories_sheet,
          has_logger, pc, last>>

\* ---------------------------------------------------------------- bounds

MaxExpenses == 1
MaxItems == 4

\* ---------------------------------------------------------------- inputs

Names == {"tea"}
UpdatedNames == {"", "bus"}
AmountInputs == {"1", "abc"}
UpdatedAmounts == {"", "2", "abc"}
UpdatedCategories == {"", "Food"}
Labels == {"Food", "Rent"}
NewValues == {"Rent"}
Choices == {"1", "2", "9"}

\* ------------------------------------------------------ python helpers

\* float(s): defined on the numeric texts, ValueError on the others.
IsNumeric(s) == s \in {"1", "2", "1.0", "2.0"}

Float(s) ==
    CASE s \in {"1", "1.0"} -> 1
      [] s \in {"2", "2.0"} -> 2

\* str(x) of a float: 1.0 -> "1.0".
Str(a) ==
    CASE a = 1 -> "1.0"
      [] a = 2 -> "2.0"

\* i in range(n)
InRange(i, n) == i \in 0 .. (n - 1)

\* seq[i] of Python, 0-based, a negative i counting from the end: the
\* 1-based position, outside 1..Len(seq) when Python raises IndexError.
PyPos(seq, i) == IF i < 0 THEN Len(seq) + i + 1 ELSE i + 1

\* seq.pop(i) / removal of the element at 1-based position p.
RemoveAt(seq, p) == [k \in 1 .. (Len(seq) - 1) |-> IF k < p THEN seq[k] ELSE seq[k + 1]]

Min2(a, b) == IF a < b THEN a ELSE b

\* The entry [column] that save_data inserts into the list it is given: a
\* one-element list, not a text, so it equals no label.
HeaderEntry == "['Category']"

\* What a list element becomes as a row of cells: the one-element list
\* ['Category'] is the row holding the text Category, a text is itself.
CellOf(item) == IF item = HeaderEntry THEN "Category" ELSE item

\* ---------------------------------------------------------- worksheet

Cell(sheet, r, c) ==
    IF r \in 1 .. Len(sheet) /\ c \in 1 .. Len(sheet[r]) THEN sheet[r][c] ELSE ""

Width(sheet) ==
    IF sheet = <<>> THEN 0
    ELSE CHOOSE w \in {Len(sheet[r]) : r \in 1 .. Len(sheet)} :
            \A r \in 1 .. Len(sheet) : Len(sheet[r]) <= w

\* sheet.find(query): the first matching cell in row-major order, as
\* [row, col]; col = 0 stands for None.
find(sheet, query) ==
    LET hits == {rc \in (1 .. Len(sheet)) \X (1 .. Width(sheet)) :
                    Cell(sheet, rc[1], rc[2]) = query}
    IN  IF hits = {} THEN [row |-> 0, col |-> 0]
        ELSE LET first == CHOOSE h \in hits :
                            \A g \in hits : h[1] < g[1] \/ (h[1] = g[1] /\ h[2] <= g[2])
             IN  [row |-> first[1], col |-> first[2]]

\* sheet.col_values(c): the cells of column c from row 1 to its last
\* non-empty row.
col_values(sheet, c) ==
    LET used == {r \in 1 .. Len(sheet) : Cell(sheet, r, c) # ""}
        n == IF used = {} THEN 0 ELSE CHOOSE r \in used : \A q \in used : q <= r
    IN  [r \in 1 .. n |-> Cell(sheet, r, c)]

\* sheet.clear()
clear(sheet) == <<>>

RowLen(sheet, r) == IF r \in 1 .. Len(sheet) THEN Len(sheet[r]) ELSE 0

Max2(a, b) == IF a > b THEN a ELSE b

\* A grid without its trailing empty cells and trailing empty rows (the
\* worksheet reports none of them).
Trim(sheet) ==
    LET rowUsed(r) == {c \in 1 .. Len(sheet[r]) : sheet[r][c] # ""}
        rowEnd(r) == IF rowUsed(r) = {} THEN 0
                     ELSE CHOOSE c \in rowUsed(r) : \A d \in rowUsed(r) : d <= c
        used == {r \in 1 .. Len(sheet) : rowUsed(r) # {}}
        n == IF used = {} THEN 0 ELSE CHOOSE r \in used : \A q \in used : q <= r
    IN  [r \in 1 .. n |-> [c \in 1 .. rowEnd(r) |-> sheet[r][c]]]

\* sheet.update(rows): the rows written from cell A1, one list per row.
update(sheet, rows) ==
    Trim([r \in 1 .. Max2(Len(rows), Len(sheet)) |->
            [c \in 1 .. Max2(RowLen(rows, r), RowLen(sheet, r)) |->
                IF c <= RowLen(rows, r) THEN rows[r][c] ELSE Cell(sheet, r, c)]])

\* The column that the range named `column` covers: the worksheet's first.
RangeCol(column) == 1

\* sheet.update(value=[[]], range_name=column): the range is cleared.
clear_range(sheet, column) ==
    Trim([r \in 1 .. Len(sheet) |->
            [c \in 1 .. Len(sheet[r]) |->
                IF c = RangeCol(column) THEN "" ELSE sheet[r][c]]])

\* sheet.update(value=data, range_name=column): element k of data goes to
\* row k of the range.
update_range(sheet, data, column) ==
    Trim([r \in 1 .. Max2(Len(data), Len(sheet)) |->
            [c \in 1 .. Max2(RangeCol(column), RowLen(sheet, r)) |->
                IF c = RangeCol(column) /\ r <= Len(data) THEN CellOf(data[r])
                ELSE Cell(sheet, r, c)]])

\* ------------------------------------------------------------ adapter

\* What a failing handler does with self.logger.error(...): one entry when
\* the logger exists; AttributeError out of the handler when it does not.
Absorb(logger, ret) ==
    IF logger THEN [ret |-> ret, logged |-> 1, raised |-> FALSE, failed |-> TRUE]
    ELSE [ret |-> ret, logged |-> 0, raised |-> TRUE, failed |-> TRUE]

\* load_data(sheet, column).  fail: 0 no call raises, 1 find raises,
\* 2 col_values raises.
load_data(sheet, column, fail, logger) ==
    LET column_obj == find(sheet, column)
    IN  IF fail = 1 THEN Absorb(logger, <<>>)
        ELSE IF column_obj.col # 0
        THEN IF fail = 2 THEN Absorb(logger, <<>>)
             ELSE LET data == col_values(sheet, column_obj.col)
                  IN  [ret |-> Tail(data), logged |-> 0, raised |-> FALSE,
                       failed |-> FALSE]
        ELSE [ret |-> <<>>, logged |-> 0, raised |-> FALSE, failed |-> FALSE]

\* load_categories(): load_data on the categories worksheet; an exception
\* out of load_data is handled by another self.logger.error.
load_categories(sheet, fail, logger) ==
    LET r == load_data(sheet, "Category", fail, logger)
    IN  IF r.raised
        THEN [ret |-> <<>>, logged |-> r.logged + (IF logger THEN 1 ELSE 0),
              raised |-> ~logger, reads |-> <<r>>]
        ELSE [ret |-> r.ret, logged |-> r.logged, raised |-> FALSE, reads |-> <<r>>]

\* load_expenses(): the three columns, zipped up to the shortest, the amount
\* through float(); a ValueError is logged and [] returned.  fails is the
\* triple of the three load_data calls' fail inputs.
load_expenses(sheet, fails, logger) ==
    LET e == load_data(sheet, "Expense Name", fails[1], logger)
        a == load_data(sheet, "Amount", fails[2], logger)
        c == load_data(sheet, "Category", fails[3], logger)
        n == Min2(Len(e.ret), Min2(Len(a.ret), Len(c.ret)))
        reads == <<e, a, c>>
        logged == e.logged + a.logged + c.logged
    IN  IF e.raised \/ a.raised \/ c.raised
        THEN [ret |-> <<>>, logged |-> logged + (IF logger THEN 1 ELSE 0),
              raised |-> ~logger, reads |-> reads]
        ELSE IF \E k \in 1 .. n : ~IsNumeric(a.ret[k])
        THEN [ret |-> <<>>, logged |-> logged + 1, raised |-> FALSE, reads |-> reads]
        ELSE [ret |-> [k \in 1 .. n |->
                        [name |-> e.ret[k], amount |-> Float(a.ret[k]),
                         category |-> c.ret[k]]],
              logged |-> logged, raised |-> FALSE, reads |-> reads]

\* save_data(sheet, data, column).  fail: 0 no call raises, 1 the clearing
\* update raises, 2 the writing update raises.  data is the caller's list
\* itself, so the header inserted into it stays in it.
save_data(sheet, data, column, fail) ==
    IF fail = 1
    THEN [sheet |-> sheet, data |-> data, logged |-> 1, calls |-> 1]
    ELSE LET cleared == clear_range(sheet, column)
             withHeader == <<HeaderEntry>> \o data
         IN  IF fail = 2
             THEN [sheet |-> cleared, data |-> withHeader, logged |-> 1, calls |-> 2]
             ELSE [sheet |-> update_range(cleared, withHeader, column),
                   data |-> withHeader, logged |-> 0, calls |-> 2]

\* save_expenses().  fail: 0 no call raises, 1 clear raises, 2 update raises.
save_expenses(exps, sheet, fail) ==
    LET expense_names == <<"Expense Name">> \o [k \in 1 .. Len(exps) |-> exps[k].name]
        expense_amounts == <<"Amount">> \o [k \in 1 .. Len(exps) |-> Str(exps[k].amount)]
        expense_cats == <<"Category">> \o [k \in 1 .. Len(exps) |-> CellOf(exps[k].category)]
        data_to_save == <<expense_names, expense_amounts, expense_cats>>
    IN  IF fail = 1 THEN [sheet |-> sheet, logged |-> 1, calls |-> 1]
        ELSE IF fail = 2 THEN [sheet |-> clear(sheet), logged |-> 1, calls |-> 2]
        ELSE [sheet |-> update(clear(sheet), data_to_save), logged |-> 0, calls |-> 2]

\* ------------------------------------------------------------ handlers

\* The record kept of a handler's run.  in: the index, the name (or label,
\* or menu option) and the amount the user typed, and which worksheet call
\* raised; logged: error entries written; raised: whether an
\* exception left the handler; accepted: whether the handler took what was
\* typed as valid; calls: worksheet write calls made; reads:
\* the load_data calls made, each with its result.
NoInput == [idx |-> 0, name |-> "", amount |-> "", fail |-> <<>>]

Ran(op, in, logged, raised, calls, reads) ==
    [op |-> op, in |-> in, accepted |-> TRUE, logged |-> logged, raised |-> raised,
     calls |-> calls, reads |-> reads]

\* The record of a run that turned its input down (an index out of range, a
\* label already present, an unknown option, a text that is no number).
Refused(op, in, logged, raised, calls, reads) ==
    [Ran(op, in, logged, raised, calls, reads) EXCEPT !.accepted = FALSE]

HeaderRow == <<"Expense Name", "Amount", "Category">>

\* The worksheets before the session: a header row alone or with a row
\* under it, as prepared by hand, or what save_expenses() of an earlier
\* session left.
InitExpenseSheets ==
    {<<HeaderRow>>,
     <<HeaderRow, <<"tea", "2", "Food">>>>,
     save_expenses(<<[name |-> "tea", amount |-> 2, category |-> "Food"]>>, <<>>, 0).sheet}
InitCategorySheets == {<<<<"Category">>, <<"Food">>>>}

Init ==
    /\ expenses = <<>>
    /\ expense_categories = <<>>
    /\ expense_sheet \in InitExpenseSheets
    /\ categories_sheet \in InitCategorySheets
    /\ has_logger = FALSE
    /\ pc = "new"
    /\ last = Refused("none", NoInput, 0, FALSE, 0, <<>>)

\* ExpenseTracker(SHEET): the categories are loaded and the budget asked
\* for before setup_logger() sets self.logger.
Construct ==
    /\ pc = "new"
    /\ \E fail \in 0 .. 2, budget \in AmountInputs :
        LET r == load_categories(categories_sheet, fail, FALSE)
            ok == ~r.raised /\ IsNumeric(budget)
        IN  /\ expenses' = <<>>
            /\ expense_categories' = IF r.raised THEN <<>> ELSE r.ret
            /\ has_logger' = ok
            /\ pc' = IF ok THEN "constructed" ELSE "crashed"
            /\ last' = Ran("construct", [NoInput EXCEPT !.fail = <<fail>>, !.amount = budget],
                           r.logged, ~ok, 0, r.reads)
    /\ UNCHANGED <<expense_sheet, categories_sheet>>

\* main(): straight to the menu.
EnterMain ==
    /\ pc = "constructed"
    /\ pc' = "menu"
    /\ last' = Ran("main", NoInput, 0, FALSE, 0, <<>>)
    /\ UNCHANGED <<expenses, expense_categories, expense_sheet, categories_sheet, has_logger>>

\* run(): self.load_expenses() is called and its result dropped, then the menu.
EnterRun ==
    /\ pc = "constructed"
    /\ \E f1 \in 0 .. 2, f2 \in 0 .. 2, f3 \in 0 .. 2 :
        LET r == load_expenses(expense_sheet, <<f1, f2, f3>>, has_logger)
        IN  last' = Ran("run", [NoInput EXCEPT !.fail = <<f1, f2, f3>>],
                        r.logged, r.raised, 0, r.reads)
    /\ pc' = "menu"
    /\ UNCHANGED <<expenses, expense_categories, expense_sheet, categories_sheet, has_logger>>

\* Menu choice 1: get_user_expense(), append, save_expenses().  A
\* non-numeric amount raises ValueError out of the menu loop; a category
\* number out of range is asked for again, so idx is the one accepted.
AddExpense ==
    /\ pc = "menu"
    /\ Len(expenses) < MaxExpenses
    /\ \E name \in Names, amount \in AmountInputs :
        IF ~IsNumeric(amount)
        THEN /\ pc' = "crashed"
             /\ last' = Refused("add_expense", [NoInput EXCEPT !.name = name, !.amount = amount],
                            0, TRUE, 0, <<>>)
             /\ UNCHANGED <<expenses, expense_categories, expense_sheet,
                            categories_sheet, has_logger>>
        ELSE \E idx \in 1 .. Len(expense_categories), fail \in 0 .. 2 :
                LET selected_index == idx - 1
                    new_expense == [name |-> name, amount |-> Float(amount),
                                    category |-> expense_categories[PyPos(expense_categories,
                                                                          selected_index)]]
                    appended == Append(expenses, new_expense)
                    s == save_expenses(appended, expense_sheet, fail)
                IN  /\ InRange(selected_index, Len(expense_categories))
                    /\ expenses' = appended
                    /\ expense_sheet' = s.sheet
                    /\ last' = Ran("add_expense",
                                   [NoInput EXCEPT !.name = name, !.amount = amount,
                                                   !.idx = idx, !.fail = <<fail>>],
                                   s.logged, FALSE, s.calls, <<>>)
                    /\ UNCHANGED <<expense_categories, categories_sheet, has_logger, pc>>

\* The index test without its lower bound, expense_index < len(self.expenses):
\* the -1 that stands for a typed 0 passes, and Python reads it from the end.
ValidExpenseIndexNoLowerBound(expense_index, exps) == expense_index < Len(exps)

\* expense_index in range(len(self.expenses))
ValidExpenseIndex(expense_index, exps) == InRange(expense_index, Len(exps))

\* edit_or_remove_expense(), the index typed is out of range: "Invalid
\* expense index."
RejectIndex ==
    /\ pc = "menu"
    /\ \E idx \in 0 .. (Len(expenses) + 1) :
        /\ ~ValidExpenseIndex(idx - 1, expenses)
        /\ last' = Refused("reject_index", [NoInput EXCEPT !.idx = idx], 0, FALSE, 0, <<>>)
    /\ UNCHANGED <<expenses, expense_categories, expense_sheet, categories_sheet,
                   has_logger, pc>>

\* self.expenses[expense_index] raising IndexError out of the menu loop.
IndexErrorCrash(idx) ==
    /\ pc' = "crashed"
    /\ last' = Refused("index_error", [NoInput EXCEPT !.idx = idx], 0, TRUE, 0, <<>>)
    /\ UNCHANGED <<expenses, expense_categories, expense_sheet, categories_sheet,
                   has_logger>>

\* edit_or_remove_expense(), option 1: the fields typed are assigned one
\* after the other, float() of the amount in between, then save_expenses().
EditExpense ==
    /\ pc = "menu"
    /\ \E idx \in 0 .. (Len(expenses) + 1) :
        /\ ValidExpenseIndex(idx - 1, expenses)
        /\ LET pos == PyPos(expenses, idx - 1)
           IN  IF pos \notin 1 .. Len(expenses) THEN IndexErrorCrash(idx)
               ELSE \E updated_name \in UpdatedNames, updated_amount \in UpdatedAmounts,
                       updated_category \in UpdatedCategories, fail \in 0 .. 2 :
                    LET in == [idx |-> idx, name |-> updated_name,
                               amount |-> updated_amount, fail |-> <<fail>>]
                        e0 == expenses[pos]
                        e1 == IF updated_name # "" THEN [e0 EXCEPT !.name = updated_name]
                              ELSE e0
                    IN  IF updated_amount # "" /\ ~IsNumeric(updated_amount)
                        THEN /\ expenses' = [expenses EXCEPT ![pos] = e1]
                             /\ pc' = "crashed"
                             /\ last' = Refused("edit_expense", [in EXCEPT !.fail = <<>>],
                                            0, TRUE, 0, <<>>)
                             /\ UNCHANGED <<expense_categories, expense_sheet,
                                            categories_sheet, has_logger>>
                        ELSE LET e2 == IF updated_amount # ""
                                       THEN [e1 EXCEPT !.amount = Float(updated_amount)]
                                       ELSE e1
                                 e3 == IF updated_category # ""
                                       THEN [e2 EXCEPT !.category = updated_category]
                                       ELSE e2
                                 edited == [expenses EXCEPT ![pos] = e3]
                                 s == save_expenses(edited, expense_sheet, fail)
                             IN  /\ expenses' = edited
                                 /\ expense_sheet' = s.sheet
                                 /\ last' = Ran("edit_expense", in, s.logged, FALSE,
                                                s.calls, <<>>)
                                 /\ UNCHANGED <<expense_categories, categories_sheet,
                                                has_logger, pc>>

\* edit_or_remove_expense(), option 2: pop, then save_expenses().
RemoveExpense ==
    /\ pc = "menu"
    /\ \E idx \in 0 .. (Len(expenses) + 1) :
        /\ ValidExpenseIndex(idx - 1, expenses)
        /\ LET pos == PyPos(expenses, idx - 1)
           IN  IF pos \notin 1 .. Len(expenses) THEN IndexErrorCrash(idx)
               ELSE \E fail \in 0 .. 2 :
                    LET popped == RemoveAt(expenses, pos)
                        s == save_expenses(popped, expense_sheet, fail)
                    IN  /\ expenses' = popped
                        /\ expense_sheet' = s.sheet
                        /\ last' = Ran("remove_expense",
                                       [NoInput EXCEPT !.idx = idx, !.fail = <<fail>>],
                                       s.logged, FALSE, s.calls, <<>>)
                        /\ UNCHANGED <<expense_categories, categories_sheet,
                                       has_logger, pc>>

\* edit_or_remove_expense(), any other option: "Invalid option."
InvalidOption ==
    /\ pc = "menu"
    /\ \E idx \in 0 .. (Len(expenses) + 1), choice \in Choices \ {"1", "2"} :
        /\ ValidExpenseIndex(idx - 1, expenses)
        /\ LET pos == PyPos(expenses, idx - 1)
           IN  IF pos \notin 1 .. Len(expenses) THEN IndexErrorCrash(idx)
               ELSE /\ last' = Refused("invalid_option",
                                   [NoInput EXCEPT !.idx = idx, !.name = choice],
                                   0, FALSE, 0, <<>>)
                    /\ UNCHANGED <<expenses, expense_categories, expense_sheet,
                                   categories_sheet, has_logger, pc>>

\* Menu choice 5 / choice 5 of manage_items: into and out of the loop of
\* manage_items(self.expense_categories, "Category").
EnterManageItems ==
    /\ pc = "menu"
    /\ pc' = "items"
    /\ last' = Ran("manage_items", NoInput, 0, FALSE, 0, <<>>)
    /\ UNCHANGED <<expenses, expense_categories, expense_sheet, categories_sheet, has_logger>>

LeaveManageItems ==
    /\ pc = "items"
    /\ pc' = "menu"
    /\ last' = Ran("leave_items", NoInput, 0, FALSE, 0, <<>>)
    /\ UNCHANGED <<expenses, expense_categories, expense_sheet, categories_sheet, has_logger>>

\* The membership test made against the wrong operand (new_item not in
\* item_type): no label is found in it.
NotInItemType(new_item, items) == TRUE

\* new_item not in items
NotIn(new_item, items) == \A k \in 1 .. Len(items) : items[k] # new_item

\* manage_items, choice 2: append and save_data(categories_sheet, items,
\* "Category"), items being self.expense_categories itself.
AddItem ==
    /\ pc = "items"
    /\ \E new_item \in Labels :
        IF NotIn(new_item, expense_categories)
        THEN \E fail \in 0 .. 2 :
                LET s == save_data(categories_sheet, Append(expense_categories, new_item),
                                   "Category", fail)
                IN  /\ Len(expense_categories) + 2 <= MaxItems
                    /\ expense_categories' = s.data
                    /\ categories_sheet' = s.sheet
                    /\ last' = Ran("add_item", [NoInput EXCEPT !.name = new_item,
                                                               !.fail = <<fail>>],
                                   s.logged, FALSE, s.calls, <<>>)
        ELSE /\ last' = Refused("add_item", [NoInput EXCEPT !.name = new_item],
                            0, FALSE, 0, <<>>)
             /\ UNCHANGED <<expense_categories, categories_sheet>>
    /\ UNCHANGED <<expenses, expense_sheet, has_logger, pc>>

\* edit_item(items, item_type): the item is replaced, then
\* self.save_data(items, self.categories_file_path) raises AttributeError
\* (no such attribute) before save_data is entered; the handler logs it.
EditItem ==
    /\ pc = "items"
    /\ \E idx \in 0 .. (Len(expense_categories) + 1), new_value \in NewValues :
        LET item_index == idx - 1
            in == [NoInput EXCEPT !.idx = idx, !.name = new_value]
        IN  IF InRange(item_index, Len(expense_categories))
            THEN /\ expense_categories' =
                        [expense_categories EXCEPT ![PyPos(expense_categories, item_index)] =
                                                        new_value]
                 /\ last' = Ran("edit_item", in, 1, FALSE, 0, <<>>)
            ELSE /\ last' = Refused("edit_item", in, 0, FALSE, 0, <<>>)
                 /\ UNCHANGED expense_categories
    /\ UNCHANGED <<expenses, expense_sheet, categories_sheet, has_logger, pc>>

\* delete_item(items, item_type): the item is popped, then the same
\* AttributeError, logged by the handler.
DeleteItem ==
    /\ pc = "items"
    /\ \E idx \in 0 .. (Len(expense_categories) + 1) :
        LET item_index == idx - 1
            in == [NoInput EXCEPT !.idx = idx]
        IN  IF InRange(item_index, Len(expense_categories))
            THEN /\ expense_categories' =
                        RemoveAt(expense_categories, PyPos(expense_categories, item_index))
                 /\ last' = Ran("delete_item", in, 1, FALSE, 0, <<>>)
            ELSE /\ last' = Refused("delete_item", in, 0, FALSE, 0, <<>>)
                 /\ UNCHANGED expense_categories
    /\ UNCHANGED <<expenses, expense_sheet, categories_sheet, has_logger, pc>>

\* Menu choice 7: the loop ends and with it the process.
Exit ==
    /\ pc = "menu"
    /\ pc' = "exited"
    /\ last' = Ran("exit", NoInput, 0, FALSE, 0, <<>>)
    /\ UNCHANGED <<expenses, expense_categories, expense_sheet, categories_sheet, has_logger>>

\* The handlers of the expense list.  They read the category list and never
\* write it or the categories worksheet.
NextExpenses ==
    \/ Construct
    \/ EnterMain
    \/ EnterRun
    \/ AddExpense
    \/ RejectIndex
    \/ EditExpense
    \/ RemoveExpense
    \/ InvalidOption
    \/ Exit

\* The handlers of the category list.  They neither read nor write the
\* expense list or the expenses worksheet.
NextItems ==
    \/ Construct
    \/ EnterMain
    \/ EnterManageItems
    \/ LeaveManageItems
    \/ AddItem
    \/ EditItem
    \/ DeleteItem
    \/ Exit

Next == NextExpenses \/ NextItems

\* Every session.
Spec == Init /\ [][Next]_vars

\* The sessions that leave the categories alone, and those that leave the
\* expenses alone.
SpecExpenses == Init /\ [][NextExpenses]_vars

SpecItems == Init /\ [][NextItems]_vars

\* ------------------------------------------------------------- claims

\* What load_expenses() and load_categories() read back from a worksheet
\* when no call raises.
PersistedExpenses(sheet) == load_expenses(sheet, <<0, 0, 0>>, TRUE).ret

PersistedCategories(sheet) == load_categories(sheet, 0, TRUE).ret

ExpenseWrites == {"add_expense", "edit_expense", "remove_expense"}
EditOrRemoveRuns == {"reject_index", "index_error", "edit_expense", "remove_expense",
                     "invalid_option"}
ItemWrites == {"add_item", "edit_item", "delete_item"}

\* The handler took its input and no worksheet call raised in it.
Succeeded(l) == l.accepted /\ ~l.raised /\ l.logged = 0

Present(label, items) == \E k \in 1 .. Len(items) : items[k] = label

\* C1: when the session reaches the menu (main or run), the in-memory
\* expense list equals the zip of the three persisted columns.
C1_StartupLoadsExpenses ==
    (pc = "menu" /\ last.op \in {"main", "run"})
        => expenses = PersistedExpenses(expense_sheet)

\* C2: round trip: after expenses were added and saved, loading the
\* expenses worksheet returns the same sequence (name, amount, category) in
\* the same order.
C2_RoundTrip ==
    (last.op = "add_expense" /\ Succeeded(last) /\ last.calls = 2)
        => PersistedExpenses(expense_sheet) = expenses

\* C3: after every successful add, edit or remove of an expense, the
\* expenses worksheet holds exactly the in-memory list: as many expenses,
\* the same ones, in the same order.
C3_TableReflectsMemory ==
    (last.op \in ExpenseWrites /\ Succeeded(last))
        => /\ Len(PersistedExpenses(expense_sheet)) = Len(expenses)
           /\ \A k \in 1 .. Len(expenses) :
                PersistedExpenses(expense_sheet)[k] = expenses[k]

\* C4: every category add, edit or delete that takes its input leaves the
\* persisted Category column equal to the in-memory category list, and the
\* expenses worksheet as it was.
C4_CategoryColumnRepersisted ==
    [][(last'.op \in ItemWrites /\ last'.accepted)
        => /\ PersistedCategories(categories_sheet') = expense_categories'
           /\ expense_sheet' = expense_sheet]_vars

\* C5: an expense edit at a valid index with a new name and a non-numeric
\* amount changes no field of any expense.
C5_FailedEditNotApplied ==
    [][(/\ last'.op = "edit_expense"
        /\ last'.in.name # ""
        /\ last'.in.amount # ""
        /\ ~IsNumeric(last'.in.amount))
        => expenses' = expenses]_vars

\* C6: when a worksheet call raises inside save_expenses or save_data, no
\* exception leaves the handler and both worksheets hold what they held.
C6_FailedWriteIsNoOp ==
    [][(/\ last'.op \in ExpenseWrites \cup {"add_item"}
        /\ last'.accepted
        /\ last'.in.fail \in {<<1>>, <<2>>})
        => /\ ~last'.raised
           /\ expense_sheet' = expense_sheet
           /\ categories_sheet' = categories_sheet]_vars

\* C7: every load_data call in which the worksheet raises returns the empty
\* sequence, logs exactly one error entry and lets no exception out, the
\* call made while the ExpenseTracker is constructed included.
C7_FailedReadIsSoft ==
    \A k \in 1 .. Len(last.reads) :
        last.reads[k].failed
            => /\ last.reads[k].ret = <<>>
               /\ last.reads[k].logged = 1
               /\ ~last.reads[k].raised

\* C8: edit_or_remove_expense with the index 0, or an index above the number
\* of expenses, is rejected: the expense list and both worksheets are
\* unchanged and no worksheet write call is made.
C8_OutOfRangeIndexRejected ==
    [][(/\ last'.op \in EditOrRemoveRuns
        /\ (last'.in.idx = 0 \/ last'.in.idx > Len(expenses)))
        => /\ last'.op = "reject_index"
           /\ expenses' = expenses
           /\ expense_sheet' = expense_sheet
           /\ categories_sheet' = categories_sheet
           /\ last'.calls = 0
           /\ pc' = pc]_vars

\* A state reached by rejecting an index above the number of expenses while
\* an expense is held and the worksheet is written.
C8_Witness ==
    /\ last.op = "reject_index"
    /\ Len(expenses) = 1
    /\ last.in.idx = Len(expenses) + 1
    /\ expense_sheet # <<>>

\* C9: adding a label that is already in the category list is rejected:
\* the list, its length and both worksheets are unchanged and no worksheet
\* write call is made.
C9_DuplicateLabelRejected ==
    [][(last'.op = "add_item" /\ Present(last'.in.name, expense_categories))
        => /\ ~last'.accepted
           /\ expense_categories' = expense_categories
           /\ Len(expense_categories') = Len(expense_categories)
           /\ categories_sheet' = categories_sheet
           /\ expense_sheet' = expense_sheet
           /\ last'.calls = 0]_vars

\* A state reached by rejecting a label the list holds.
C9_Witness ==
    /\ last.op = "add_item"
    /\ ~last.accepted
    /\ Present(last.in.name, expense_categories)
    /\ last.calls = 0

\* C10: adding a label that is not in the category list leaves the list as
\* it was with exactly that label appended.
C10_AddAppendsOnlyLabel ==
    [][(last'.op = "add_item" /\ ~Present(last'.in.name, expense_categories))
        => expense_categories' = Append(expense_categories, last'.in.name)]_vars

====
